---- MODULE Spec2Model ----
(***************************************************************************)
(* The receiver side of the tab recorder: RecorderService.HandleRecording  *)
(* (Backend/services/recorder.go), FileWriterService                       *)
(* (Backend/services/filewriter.go) and Stats (Backend/services/stats.go). *)
(* Every HTTP request runs HandleRecording on its own goroutine, so a call *)
(* is a process whose steps are the operations on the shared sync.Maps,    *)
(* the stats mutex and the per-handle mutex.                               *)
(***************************************************************************)
EXTENDS Integers, Sequences, FiniteSets, TLC

\* ------------------------------------------------------------------ bounds
MaxCalls == 3        \* HandleRecording calls started over one run
MaxProcs == 2        \* calls in progress at the same time
MaxFaults == 1       \* I/O operations the environment lets fail over one run
BufSize == 2         \* capacity of the handle's bufio.Writer, scaled down
MaxTotal == 4        \* cap on Stats.TotalSizeBytes in the aggregator runs
MaxSessions == 3     \* cap on Stats.TotalSessions in the aggregator runs
MaxDirChanges == 1   \* SetDownloadDir calls made over one run
MaxStarts == 2       \* recordings the operator starts over one run
MaxChunks == 2       \* timeslice chunks a recording hands to the transport
MaxFails == 1        \* transport calls and captures that fail over one run
MaxInbox == 1        \* messages on their way to the offscreen document

Procs == 1..MaxProcs
Tabs == {5, 9}
Names == {"demo"}
Timestamps == {1000, 2000}

\* The payloads a producer of tab t sends: one that fits the writer's buffer
\* and one that is larger than it.  Bytes carry the tab so that a byte in a
\* file names the session that submitted it.
Payloads(t) == { <<10 * t + 1>>, <<10 * t + 2, 10 * t + 3, 10 * t + 4>> }

VARIABLES
    stoppedRecordings,   \* RecorderService.stoppedRecordings: set of tab ids
    activeRecordings,    \* RecorderService.activeRecordings: set of tab ids
    sessionInfo,         \* RecorderService.sessionInfo: tab id -> BytesWritten
    activeFiles,         \* FileWriterService.activeFiles: tab id -> handle
    handles,             \* every fileHandle created so far, by creation order
    disk,                \* the download directory: file name -> content
    totalSize,           \* FileWriterService.totalSize
    TotalSizeBytes,      \* Stats.TotalSizeBytes
    TotalSessions,       \* Stats.TotalSessions
    dirty,               \* Stats.dirty
    snapshot,            \* the stats.json file
    lastSave,            \* Stats.lastSave: instant of the last write, or 0
    statsPc,             \* where the aggregator's lifecycle stands
    loadErr,             \* what Stats.Load returned
    startErr,            \* what NewStats handed to its caller
    calls,               \* the HandleRecording call each goroutine is in
    ncalls,              \* calls started so far
    nfaults,             \* I/O failures so far
    hist,                \* per tab: what has been observed of its calls
    downloadDir,         \* FileWriterService.downloadDir
    dirs,                \* the directories that exist
    cfgCall,             \* the SetDownloadDir call in progress, and how many
    pendingChunks,       \* offscreen: chunk transport calls counted in flight
    stopRequested,       \* offscreen: a stop-recording message was handled
    stopResolve,         \* offscreen: the tab whose onstop awaits, or NoTab
    activeRecorders,     \* offscreen: tab id -> MediaRecorder state
    recordingMetadata,   \* offscreen: tab ids that have metadata
    starting,            \* offscreen: tabs whose start awaits getUserMedia
    mediaEvents,         \* per tab: events the MediaRecorder has queued
    sending,             \* per tab: sendChunkToBackend calls not settled
    onstop,              \* per tab: where the onstop handler stands
    inbox,               \* messages on their way to the offscreen document
    bgRecordings,        \* background script: its activeRecordings tab ids
    seen,                \* per tab: what has been observed of the producer
    nstarts,             \* recordings started so far
    nfails,              \* transport calls failed so far
    mu,                  \* fileHandle.mu by handle: its holder, or 0
    totalSizeMu,         \* FileWriterService.totalSizeMu: its holder, or 0
    loaded,              \* per call: the *SessionInfo it has loaded
    request,             \* the HTTP request at RecordingsHandler.Handle
    useBackendMode,      \* offscreen: the delivery mode last set
    recordedChunksMap,   \* offscreen: per tab, chunks buffered locally
    acquiring            \* background: per tab, start calls at their awaits

configVars == <<downloadDir, dirs, cfgCall>>
lockVars == <<mu, totalSizeMu, loaded>>
handlerVars == <<request>>
modeVars == <<useBackendMode, recordedChunksMap>>
startVars == <<acquiring>>
producerVars == <<pendingChunks, stopRequested, stopResolve, activeRecorders,
                  recordingMetadata, starting, mediaEvents, sending, onstop,
                  inbox, bgRecordings, seen, nstarts, nfails,
                  modeVars, startVars>>

vars == <<stoppedRecordings, activeRecordings, sessionInfo, activeFiles,
          handles, disk, totalSize, TotalSizeBytes, TotalSessions, dirty,
          snapshot, lastSave, statsPc, loadErr, startErr, calls, ncalls,
          nfaults, hist,
          configVars, producerVars, lockVars, handlerVars>>

recorderVars == <<stoppedRecordings, activeRecordings, sessionInfo>>
writerVars == <<activeFiles, handles, disk, totalSize>>
statsVars == <<TotalSizeBytes, TotalSessions, dirty, snapshot, lastSave,
               statsPc,
               loadErr, startErr>>

receiverVars == <<recorderVars, writerVars, statsVars, calls, ncalls,
                  nfaults, hist, configVars, lockVars, handlerVars>>

\* ----------------------------------------------------------------- helpers
RECURSIVE Flatten(_)
Flatten(ss) == IF ss = <<>> THEN <<>> ELSE Head(ss) \o Flatten(Tail(ss))

Min(a, b) == IF a < b THEN a ELSE b

\* sync.Map as a function whose domain is the set of stored keys
MapStore(m, k, v) == [x \in DOMAIN m \cup {k} |-> IF x = k THEN v ELSE m[x]]
MapDelete(m, k) == [x \in DOMAIN m \ {k} |-> m[x]]

NoHandle == 0

\* ------------------------------------------- the parts before they act
NoTab == 0

\* the root NewFileWriterService is given, and the one a config request names
DefaultDir == "recordings"
Dirs == {DefaultDir, "videos"}

\* no SetDownloadDir call in progress, none made yet
NoCfgCall == [pc |-> "idle", dir |-> "", n |-> 0]

\* filewriter.go:24-34 NewFileWriterService: downloadDir is set and made
InitConfig ==
    /\ downloadDir = DefaultDir
    /\ dirs = {DefaultDir}
    /\ cfgCall = NoCfgCall

\* no lock is held; no call has loaded a *SessionInfo
NoProc == 0
NoInfo == [tab |-> NoTab, val |-> 0, live |-> FALSE]

\* recordings.go:23-24: no request is at the handler; else the body it
\* came with, and the status code once the handler has answered it itself
NoRequest ==
    [pc |-> "none", kind |-> "", tabId |-> NoTab, name |-> "",
     timestamp |-> 0, data |-> <<>>, status |-> "", code |-> 0]
InitHandler == request = NoRequest

InitLocks ==
    /\ mu = [i \in 1..MaxCalls |-> NoProc]
    /\ totalSizeMu = NoProc
    /\ loaded = [p \in Procs |-> NoInfo]

\* a *SessionInfo a call holds for tab t is no longer the one in the map
\* once the map's entry for t is stored anew or deleted
Replaced(t) ==
    [q \in Procs |-> IF loaded[q].tab = t THEN [loaded[q] EXCEPT !.live = FALSE]
                                         ELSE loaded[q]]

\* what an observer has noted of a tab's recording: data events handed to
\* sendChunkToBackend, chunk requests posted, chunk requests failed, the
\* operator's stop request made, the tab closed or navigated while
\* recorded, the notifications sent for it, and the useBackend its start
\* request came with (main.go:268-273)
NoSeen ==
    [made |-> 0, posted |-> 0, failed |-> 0, stopped |-> FALSE,
     cancelled |-> FALSE, notes |-> {}, useBackend |-> FALSE]

\* part_001:5-12 and main.go:95: the offscreen document and the background
\* script as loaded
InitProducer ==
    /\ pendingChunks = 0 /\ stopRequested = FALSE /\ stopResolve = NoTab
    /\ activeRecorders = <<>> /\ recordingMetadata = {} /\ starting = {}
    /\ mediaEvents = [t \in Tabs |-> <<>>]
    /\ sending = [t \in Tabs |-> 0]
    /\ onstop = [t \in Tabs |-> "none"]
    /\ inbox = <<>> /\ bgRecordings = {}
    /\ seen = [t \in Tabs |-> NoSeen]
    /\ nstarts = 0 /\ nfails = 0
    /\ useBackendMode = FALSE
    /\ recordedChunksMap = [t \in Tabs |-> 0]
    /\ acquiring = [t \in Tabs |-> 0]

\* ------------------------------------------------- files and bufio.Writer
\* A fileHandle: the os.File (name, offset, closed) and its bufio.Writer
\* (buf, err: bufio keeps the first write error and returns it ever after).
\* closes counts the Close calls made on the file.
NewHandle(fname, t) ==
    [name |-> fname, tab |-> t, off |-> 0, buf |-> <<>>, err |-> FALSE,
     closed |-> FALSE, closes |-> 0]

\* bytes written at offset off of a file: the file grows, a gap reads as 0
WriteAt(content, off, bytes) ==
    [i \in 1..(IF off + Len(bytes) > Len(content) THEN off + Len(bytes)
                                                  ELSE Len(content)) |->
        IF i > off /\ i <= off + Len(bytes) THEN bytes[i - off]
        ELSE IF i <= Len(content) THEN content[i]
        ELSE 0]

\* os.File.Write on the file of handle f.h, whose content is f.content.
\* It fails on a closed file and when the disk fails (ioFail).
FileWrite(f, bytes, ioFail) ==
    IF f.h.closed \/ ioFail
    THEN [h |-> f.h, content |-> f.content, n |-> 0, err |-> TRUE]
    ELSE [h |-> [f.h EXCEPT !.off = @ + Len(bytes)],
          content |-> WriteAt(f.content, f.h.off, bytes),
          n |-> Len(bytes), err |-> FALSE]

\* bufio.Writer.Flush
Flush(f, ioFail) ==
    IF f.h.err THEN [h |-> f.h, content |-> f.content, n |-> 0, err |-> TRUE]
    ELSE IF f.h.buf = <<>>
         THEN [h |-> f.h, content |-> f.content, n |-> 0, err |-> FALSE]
         ELSE LET w == FileWrite(f, f.h.buf, ioFail) IN
              IF w.err
              THEN [h |-> [w.h EXCEPT !.err = TRUE], content |-> w.content,
                    n |-> 0, err |-> TRUE]
              ELSE [h |-> [w.h EXCEPT !.buf = <<>>], content |-> w.content,
                    n |-> w.n, err |-> FALSE]

\* bufio.Writer.Write(p), nn bytes taken so far
RECURSIVE BufWrite(_, _, _, _)
BufWrite(f, p, nn, ioFail) ==
    IF Len(p) > BufSize - Len(f.h.buf) /\ ~f.h.err
    THEN IF f.h.buf = <<>>
         THEN \* large write, empty buffer: written directly to the file
              LET w == FileWrite(f, p, ioFail) IN
              IF w.err
              THEN [h |-> [w.h EXCEPT !.err = TRUE], content |-> w.content,
                    n |-> nn, err |-> TRUE]
              ELSE [h |-> w.h, content |-> w.content, n |-> nn + w.n,
                    err |-> FALSE]
         ELSE \* fill the buffer, flush it, go on with the rest
              LET k == Min(BufSize - Len(f.h.buf), Len(p))
                  filled == [h |-> [f.h EXCEPT !.buf = @ \o SubSeq(p, 1, k)],
                             content |-> f.content]
                  fl == Flush(filled, ioFail)
              IN  BufWrite([h |-> fl.h, content |-> fl.content],
                           SubSeq(p, k + 1, Len(p)), nn + k, ioFail)
    ELSE IF f.h.err
         THEN [h |-> f.h, content |-> f.content, n |-> nn, err |-> TRUE]
         ELSE [h |-> [f.h EXCEPT !.buf = @ \o p], content |-> f.content,
               n |-> nn + Len(p), err |-> FALSE]

\* a file name that leaves the tab id out
FileNameNoTab(name, tabID, timestamp) == <<name, 0, timestamp>>

\* fmt.Sprintf("%s_%d_%d.webm", name, tabID, timestamp) under downloadDir
FileName(name, tabID, timestamp) == <<name, tabID, timestamp>>

\* filepath.Join(fws.downloadDir, filename)
FilePath(dir, filename) == <<dir, filename>>

\* FileWriterService.WriteChunk once it holds the handle's lock: Write, add
\* the bytes written to totalSize, Flush.  add is what totalSize grows by.
WriteChunk(f, data, ioFail) ==
    LET w == BufWrite(f, data, 0, ioFail) IN
    IF w.err
    THEN [h |-> w.h, content |-> w.content, add |-> 0,
          res |-> "disk write failed"]
    ELSE LET fl == Flush([h |-> w.h, content |-> w.content], ioFail) IN
         [h |-> fl.h, content |-> fl.content, add |-> w.n,
          res |-> IF fl.err THEN "disk flush failed" ELSE "ok"]

\* a CloseFile that loads the handle and leaves it in the map
LoadOnly(m, tabID) == m

\* activeFiles after CloseFile's LoadAndDelete(tabID)
LoadAndDelete(m, tabID) == MapDelete(m, tabID)

\* -------------------------------------------------------------- the calls
Idle ==
    [pc |-> "idle", status |-> "", tabID |-> 0, name |-> "", timestamp |-> 0,
     data |-> <<>>, handle |-> NoHandle, afterStop |-> FALSE]

\* a call that has returned leaves its goroutine idle
Returned(c, res) == Idle

Free(p) == calls[p].pc = "idle"
InFlight(t) == \E q \in Procs : ~Free(q) /\ calls[q].tabID = t

\* a new request is served by the first idle goroutine
Serves(p) == Free(p) /\ \A q \in Procs : q < p => ~Free(q)

NoHist ==
    [accepted |-> <<>>, okBytes |-> 0, stops |-> 0,
     started |-> FALSE, late |-> FALSE, stopDone |-> FALSE, overlap |-> FALSE]

\* what an observer notes when a call for tab t begins
Begun(t, status) ==
    [hist EXCEPT ![t] =
        [@ EXCEPT !.started = TRUE,
                  !.overlap = @ \/ InFlight(t),
                  !.stops = IF status = "stopped" THEN @ + 1 ELSE @,
                  !.late = @ \/ (status = "stream" /\ hist[t].stops > 0)]]

\* a "stream" request that enters HandleRecording without the lookup in
\* stoppedRecordings
StreamBeginUnchecked(p, t, nm, ts, d) ==
    /\ Serves(p) /\ ncalls < MaxCalls
    /\ ncalls' = ncalls + 1
    /\ hist' = Begun(t, "stream")
    /\ calls' = [calls EXCEPT ![p] =
            [Idle EXCEPT !.pc = "chkActive", !.status = "stream",
                         !.tabID = t, !.name = nm, !.timestamp = ts,
                         !.data = d, !.afterStop = hist[t].stopDone]]
    /\ request' = NoRequest
    /\ UNCHANGED <<configVars, producerVars, lockVars,
                   recorderVars, writerVars, statsVars, nfaults>>

\* recorder.go:46-48: a request {tabID, name, timestamp, data, "stream"}
\* enters HandleRecording and looks the tab up in stoppedRecordings
StreamBegin(p, t, nm, ts, d) ==
    /\ Serves(p) /\ ncalls < MaxCalls
    /\ ncalls' = ncalls + 1
    /\ hist' = Begun(t, "stream")
    /\ LET c == [Idle EXCEPT !.status = "stream", !.tabID = t, !.name = nm,
                             !.timestamp = ts, !.data = d,
                             !.afterStop = hist[t].stopDone]
       IN  calls' = [calls EXCEPT ![p] =
                IF t \in stoppedRecordings
                THEN Returned(c, "already stopped")
                ELSE [c EXCEPT !.pc = "chkActive"]]
    /\ request' = NoRequest
    /\ UNCHANGED <<configVars, producerVars, lockVars,
                   recorderVars, writerVars, statsVars, nfaults>>

\* recorder.go:50: activeRecordings.Load
CheckActive(p) ==
    /\ calls[p].pc = "chkActive"
    /\ calls' = [calls EXCEPT ![p].pc =
            IF calls[p].tabID \in activeRecordings THEN "storeActive"
                                                   ELSE "incSession"]
    /\ UNCHANGED <<configVars, producerVars, handlerVars, lockVars,
                   recorderVars, writerVars, statsVars, ncalls, nfaults, hist>>

\* stats.go:118-123 Stats.IncrementSession
IncrementSession ==
    /\ TotalSessions' = TotalSessions + 1
    /\ dirty' = TRUE

\* recorder.go:51
NewSession(p) ==
    /\ calls[p].pc = "incSession"
    /\ IncrementSession
    /\ calls' = [calls EXCEPT ![p].pc = "storeInfo"]
    /\ UNCHANGED <<configVars, producerVars, handlerVars, lockVars,
                   recorderVars, writerVars, TotalSizeBytes, snapshot,
                   lastSave, statsPc,
                   loadErr, startErr, ncalls, nfaults, hist>>

\* recorder.go:52-57: sessionInfo.Store(tabID, &SessionInfo{BytesWritten: 0})
StoreInfo(p) ==
    /\ calls[p].pc = "storeInfo"
    /\ sessionInfo' = MapStore(sessionInfo, calls[p].tabID, 0)
    /\ loaded' = Replaced(calls[p].tabID)
    /\ calls' = [calls EXCEPT ![p].pc = "storeActive"]
    /\ UNCHANGED <<configVars, producerVars, handlerVars, mu, totalSizeMu,
                   stoppedRecordings, activeRecordings, writerVars, statsVars,
                   ncalls, nfaults, hist>>

\* recorder.go:61: activeRecordings.Store(tabID, true)
StoreActive(p) ==
    /\ calls[p].pc = "storeActive"
    /\ activeRecordings' = activeRecordings \cup {calls[p].tabID}
    /\ calls' = [calls EXCEPT ![p].pc = "getHandle"]
    /\ UNCHANGED <<configVars, producerVars, handlerVars, lockVars,
                   stoppedRecordings, sessionInfo, writerVars, statsVars,
                   ncalls, nfaults, hist>>

\* filewriter.go:113-117 getOrCreateHandle: activeFiles.Load
GetHandle(p) ==
    /\ calls[p].pc = "getHandle"
    /\ calls' = [calls EXCEPT ![p] =
            IF calls[p].tabID \in DOMAIN activeFiles
            THEN [@ EXCEPT !.pc = "write",
                           !.handle = activeFiles[calls[p].tabID]]
            ELSE [@ EXCEPT !.pc = "ensureDir"]]
    /\ UNCHANGED <<configVars, producerVars, handlerVars, lockVars,
                   recorderVars, writerVars, statsVars, ncalls, nfaults, hist>>

\* filewriter.go:131-138 createFile: ensureDirectory(fws.downloadDir) makes
\* the directory downloadDir names at this moment
EnsureDir(p) ==
    /\ calls[p].pc = "ensureDir"
    /\ dirs' = dirs \cup {downloadDir}
    /\ calls' = [calls EXCEPT ![p].pc = "createFile"]
    /\ UNCHANGED <<downloadDir, cfgCall, producerVars, handlerVars, lockVars,
                   recorderVars, writerVars, statsVars, ncalls, nfaults, hist>>

\* filewriter.go:140-157 createFile: the path is joined from downloadDir as
\* it is now; os.Create makes the file, or empties the file of that name,
\* and yields a new handle; it fails when the directory does not exist, and
\* it can fail
CreateFile(p) ==
    /\ calls[p].pc = "createFile"
    /\ LET c == calls[p]
           fname == FilePath(downloadDir,
                             FileName(c.name, c.tabID, c.timestamp))
       IN  \/ /\ downloadDir \in dirs
              /\ handles' = Append(handles, NewHandle(fname, c.tabID))
              /\ disk' = MapStore(disk, fname, <<>>)
              /\ calls' = [calls EXCEPT ![p].pc = "storeHandle",
                                        ![p].handle = Len(handles) + 1]
              /\ UNCHANGED nfaults
           \/ /\ downloadDir \notin dirs
              /\ calls' = [calls EXCEPT ![p] =
                              Returned(c, "failed to create file")]
              /\ UNCHANGED <<handles, disk, nfaults>>
           \/ /\ nfaults < MaxFaults
              /\ nfaults' = nfaults + 1
              /\ calls' = [calls EXCEPT ![p] =
                              Returned(c, "failed to create file")]
              /\ UNCHANGED <<handles, disk>>
    /\ UNCHANGED <<configVars, producerVars, handlerVars, lockVars,
                   recorderVars, activeFiles, totalSize, statsVars, ncalls,
                   hist>>

\* filewriter.go:126: activeFiles.Store(tabID, handle)
StoreHandle(p) ==
    /\ calls[p].pc = "storeHandle"
    /\ activeFiles' = MapStore(activeFiles, calls[p].tabID, calls[p].handle)
    /\ calls' = [calls EXCEPT ![p].pc = "write"]
    /\ UNCHANGED <<configVars, producerVars, handlerVars, lockVars,
                   recorderVars, handles, disk, totalSize, statsVars, ncalls,
                   nfaults, hist>>

\* the disk may fail an operation on a handle that is still usable
MayFail(h) == nfaults < MaxFaults /\ ~h.closed /\ ~h.err

\* filewriter.go:52-74: the locked section of WriteChunk, then
\* recorder.go:63-66 on its error
Write(p) ==
    /\ calls[p].pc = "write"
    /\ LET c == calls[p]
           h == handles[c.handle]
       IN  \E ioFail \in BOOLEAN :
             /\ ioFail => MayFail(h)
             /\ nfaults' = IF ioFail THEN nfaults + 1 ELSE nfaults
             /\ LET r == WriteChunk([h |-> h, content |-> disk[h.name]],
                                    c.data, ioFail)
                IN  /\ handles' = [handles EXCEPT ![c.handle] = r.h]
                    /\ disk' = [disk EXCEPT ![h.name] = r.content]
                    /\ totalSize' = totalSize + r.add
                    /\ IF r.res = "ok"
                       THEN /\ calls' = [calls EXCEPT ![p].pc = "updInfo"]
                            /\ hist' = [hist EXCEPT ![c.tabID] =
                                   [@ EXCEPT !.accepted = Append(@, c.data),
                                             !.okBytes = @ + Len(c.data)]]
                       ELSE /\ calls' = [calls EXCEPT ![p] =
                                            Returned(c, r.res)]
                            /\ UNCHANGED hist
    /\ UNCHANGED <<configVars, producerVars, handlerVars, lockVars,
                   recorderVars, activeFiles, statsVars, ncalls>>

\* recorder.go:68-77: sessionInfo.Load, BytesWritten += len(data), return nil
UpdateInfo(p) ==
    /\ calls[p].pc = "updInfo"
    /\ LET c == calls[p] IN
        /\ sessionInfo' =
             IF c.tabID \in DOMAIN sessionInfo
             THEN [sessionInfo EXCEPT ![c.tabID] = @ + Len(c.data)]
             ELSE sessionInfo
        /\ calls' = [calls EXCEPT ![p] = Returned(c, "ok")]
    /\ UNCHANGED <<configVars, producerVars, handlerVars, lockVars,
                   stoppedRecordings, activeRecordings, writerVars, statsVars,
                   ncalls, nfaults, hist>>

\* recorder.go:80: a request {tabID, "stopped"} enters HandleRecording:
\* stoppedRecordings.Store(tabID, true)
StopBegin(p, t) ==
    /\ Serves(p) /\ ncalls < MaxCalls
    /\ ncalls' = ncalls + 1
    /\ hist' = Begun(t, "stopped")
    /\ stoppedRecordings' = stoppedRecordings \cup {t}
    /\ calls' = [calls EXCEPT ![p] =
            [Idle EXCEPT !.pc = "delActive", !.status = "stopped",
                         !.tabID = t, !.afterStop = hist[t].stopDone]]
    /\ request' = NoRequest
    /\ UNCHANGED <<configVars, producerVars, lockVars,
                   activeRecordings, sessionInfo, writerVars, statsVars,
                   nfaults>>

\* recorder.go:81: activeRecordings.Delete(tabID)
DeleteActive(p) ==
    /\ calls[p].pc = "delActive"
    /\ activeRecordings' = activeRecordings \ {calls[p].tabID}
    /\ calls' = [calls EXCEPT ![p].pc = "delInfo"]
    /\ UNCHANGED <<configVars, producerVars, handlerVars, lockVars,
                   stoppedRecordings, sessionInfo, writerVars, statsVars,
                   ncalls, nfaults, hist>>

\* recorder.go:82: sessionInfo.Delete(tabID)
DeleteInfo(p) ==
    /\ calls[p].pc = "delInfo"
    /\ sessionInfo' = MapDelete(sessionInfo, calls[p].tabID)
    /\ loaded' = Replaced(calls[p].tabID)
    /\ calls' = [calls EXCEPT ![p].pc = "takeHandle"]
    /\ UNCHANGED <<configVars, producerVars, handlerVars, mu, totalSizeMu,
                   stoppedRecordings, activeRecordings, writerVars, statsVars,
                   ncalls, nfaults, hist>>

\* filewriter.go:80-84 CloseFile: activeFiles.LoadAndDelete(tabID); with no
\* handle stored CloseFile returns nil
TakeHandle(p) ==
    /\ calls[p].pc = "takeHandle"
    /\ LET t == calls[p].tabID IN
        IF t \in DOMAIN activeFiles
        THEN /\ calls' = [calls EXCEPT ![p].pc = "close",
                                       ![p].handle = activeFiles[t]]
             /\ activeFiles' = LoadAndDelete(activeFiles, t)
             /\ UNCHANGED hist
        ELSE /\ calls' = [calls EXCEPT ![p].pc = "unmark"]
             /\ UNCHANGED <<activeFiles, hist>>
    /\ UNCHANGED <<configVars, producerVars, handlerVars, lockVars,
                   recorderVars, handles, disk, totalSize, statsVars, ncalls,
                   nfaults>>

\* filewriter.go:86-102: the locked section of CloseFile: the final Flush,
\* whose error is only logged, then file.Close, whose error is returned;
\* recorder.go:85-88 returns it with the tab still in stoppedRecordings
Close(p) ==
    /\ calls[p].pc = "close"
    /\ LET c == calls[p]
           h == handles[c.handle]
           fl == Flush([h |-> h, content |-> disk[h.name]], FALSE)
       IN  \E ioFail \in BOOLEAN :
             /\ ioFail => MayFail(h)
             /\ nfaults' = IF ioFail THEN nfaults + 1 ELSE nfaults
             /\ handles' = [handles EXCEPT ![c.handle] =
                               [fl.h EXCEPT !.closed = TRUE,
                                            !.closes = @ + 1]]
             /\ disk' = [disk EXCEPT ![h.name] = fl.content]
             /\ IF h.closed \/ ioFail
                THEN /\ calls' = [calls EXCEPT ![p] =
                                     Returned(c, "failed to close file")]
                     /\ hist' = [hist EXCEPT ![c.tabID].accepted = <<>>,
                                             ![c.tabID].stopDone = TRUE]
                ELSE /\ calls' = [calls EXCEPT ![p].pc = "unmark"]
                     /\ hist' = [hist EXCEPT ![c.tabID].accepted = <<>>]
    /\ UNCHANGED <<configVars, producerVars, handlerVars, lockVars,
                   recorderVars, activeFiles, totalSize, statsVars, ncalls>>

\* recorder.go:91-92: stoppedRecordings.Delete(tabID), return nil
Unmark(p) ==
    /\ calls[p].pc = "unmark"
    /\ stoppedRecordings' = stoppedRecordings \ {calls[p].tabID}
    /\ calls' = [calls EXCEPT ![p] = Returned(calls[p], "ok")]
    /\ hist' = [hist EXCEPT ![calls[p].tabID].stopDone = TRUE]
    /\ UNCHANGED <<configVars, producerVars, handlerVars, lockVars,
                   activeRecordings, sessionInfo, writerVars, statsVars,
                   ncalls, nfaults>>

\* a status that names no case of HandleRecording's switch
OtherStatuses == {"paused"}

\* recorder.go:44, 94: a request whose status is neither "stream" nor
\* "stopped" enters HandleRecording and takes the default branch
DefaultBegin(p, t, st) ==
    /\ Serves(p) /\ ncalls < MaxCalls
    /\ ncalls' = ncalls + 1
    /\ calls' = [calls EXCEPT ![p] =
            [Idle EXCEPT !.pc = "default", !.status = st, !.tabID = t]]
    /\ request' = NoRequest
    /\ UNCHANGED <<configVars, producerVars, lockVars,
                   recorderVars, writerVars, statsVars, nfaults, hist>>

\* recorder.go:95-96: the default branch logs and returns an error
UnknownStatus(p) ==
    /\ calls[p].pc = "default"
    /\ calls' = [calls EXCEPT ![p] = Returned(calls[p], "unknown status")]
    /\ UNCHANGED <<configVars, producerVars, handlerVars, lockVars,
                   recorderVars, writerVars, statsVars, ncalls, nfaults, hist>>

\* recordings.go:43-50: the status RecordingsHandler.Handle answers with
\* for what HandleRecording returned
HttpStatus(err) == IF err = "nil" THEN 202 ELSE 500

\* recorder.go:100-123: the monitoring queries; GetSessionInfo yields the
\* session's BytesWritten in a one-element sequence, <<>> standing for nil
GetActiveRecordings == activeRecordings
IsRecording(tabID) == tabID \in activeRecordings
GetSessionInfo(tabID) ==
    IF tabID \in DOMAIN sessionInfo THEN <<sessionInfo[tabID]>> ELSE <<>>

\* ------------------------------------------------- the stats aggregator
\* stats.json holds {"totalSizeBytes": b, "totalSessions": n}; it can also
\* be absent, be unreadable, or hold bytes that are no JSON document.
StatsFile(kind, size, sessions) ==
    [kind |-> kind, totalSizeBytes |-> size, totalSessions |-> sessions]
Missing == StatsFile("missing", 0, 0)
Snapshots ==
    {Missing, StatsFile("unreadable", 0, 0), StatsFile("corrupt", 0, 0),
     StatsFile("json", 2, 1)}

\* stats.go:36-57 Stats.Load on stats.json holding snap, into a Stats whose
\* totals are size and sessions: the totals it leaves and what it returns
Load(snap, size, sessions) ==
    IF snap.kind = "missing"
    THEN [size |-> size, sessions |-> sessions, err |-> "nil"]
    ELSE IF snap.kind = "unreadable"
    THEN [size |-> size, sessions |-> sessions, err |-> "read error"]
    ELSE IF snap.kind = "corrupt"
    THEN [size |-> size, sessions |-> sessions, err |-> "parse error"]
    ELSE [size |-> snap.totalSizeBytes, sessions |-> snap.totalSessions,
          err |-> "nil"]

\* stats.go:25-34 NewStats, first half: the Stats is made and Load is called
StatsLoad ==
    /\ statsPc = "new"
    /\ LET r == Load(snapshot, TotalSizeBytes, TotalSessions) IN
        /\ TotalSizeBytes' = r.size
        /\ TotalSessions' = r.sessions
        /\ loadErr' = r.err
    /\ statsPc' = "loaded"
    /\ UNCHANGED <<configVars, producerVars, handlerVars, lockVars,
                   recorderVars, writerVars, dirty, snapshot, lastSave,
                   startErr, calls,
                   ncalls, nfaults, hist>>

\* what NewStats makes of Load's result: stats.go:31 drops it, and NewStats
\* returns the *Stats alone
Surfaced(err) == "nil"

\* stats.go:32-33 NewStats, second half: the periodic save is started and
\* the Stats is returned
StatsStart ==
    /\ statsPc = "loaded"
    /\ statsPc' = "running"
    /\ startErr' = Surfaced(loadErr)
    /\ UNCHANGED <<configVars, producerVars, handlerVars, lockVars,
                   recorderVars, writerVars, TotalSizeBytes, TotalSessions,
                   dirty, snapshot, lastSave, loadErr, calls, ncalls,
                   nfaults, hist>>

Started == statsPc \in {"running", "stopping", "stopped"}

\* an AddSize that assigns where it should add
AddSizeAssign(bytes) ==
    /\ TotalSizeBytes' = bytes
    /\ dirty' = TRUE

\* an AddSize that forgets the dirty flag
AddSizeQuiet(bytes) ==
    /\ TotalSizeBytes' = TotalSizeBytes + bytes
    /\ dirty' = dirty

\* stats.go:111-116 Stats.AddSize
AddSize(bytes) ==
    /\ TotalSizeBytes' = TotalSizeBytes + bytes
    /\ dirty' = TRUE

\* a caller adds the bytes of one written chunk (build.ps1:192)
StatsAddSize(n) ==
    /\ Started
    /\ TotalSizeBytes + n <= MaxTotal
    /\ AddSize(n)
    /\ UNCHANGED <<configVars, producerVars, handlerVars, lockVars,
                   recorderVars, writerVars, TotalSessions, snapshot,
                   lastSave, statsPc,
                   loadErr, startErr, calls, ncalls, nfaults, hist>>

\* a caller counts a new session (recorder.go:51)
StatsIncrementSession ==
    /\ Started
    /\ TotalSessions < MaxSessions
    /\ IncrementSession
    /\ UNCHANGED <<configVars, producerVars, handlerVars, lockVars,
                   recorderVars, writerVars, TotalSizeBytes, snapshot,
                   lastSave, statsPc,
                   loadErr, startErr, calls, ncalls, nfaults, hist>>

\* a save that writes whether dirty or not
saveAlways(ioFail) ==
    IF ioFail
    THEN UNCHANGED <<snapshot, dirty, lastSave>>
    ELSE /\ snapshot' = StatsFile("json", TotalSizeBytes, TotalSessions)
         /\ dirty' = FALSE
         /\ lastSave' = lastSave + 1

\* a save that clears dirty even when its write failed
saveForgets(ioFail) ==
    IF ~dirty
    THEN UNCHANGED <<snapshot, dirty, lastSave>>
    ELSE IF ioFail
    THEN dirty' = FALSE /\ UNCHANGED <<snapshot, lastSave>>
    ELSE /\ snapshot' = StatsFile("json", TotalSizeBytes, TotalSessions)
         /\ dirty' = FALSE
         /\ lastSave' = lastSave + 1

\* stats.go:59-78 Stats.save: nothing when not dirty; else the totals are
\* written to stats.json, dirty is cleared and lastSave set to the present
\* instant (instants are counted by the writes made), unless the write fails
save(ioFail) ==
    IF ~dirty \/ ioFail
    THEN UNCHANGED <<snapshot, dirty, lastSave>>
    ELSE /\ snapshot' = StatsFile("json", TotalSizeBytes, TotalSessions)
         /\ dirty' = FALSE
         /\ lastSave' = lastSave + 1

SaveFault(ioFail) ==
    /\ ioFail => dirty /\ nfaults < MaxFaults
    /\ nfaults' = IF ioFail THEN nfaults + 1 ELSE nfaults

\* stats.go:91-96: the ticker fires and the select takes its case. With
\* stopChan closed as well, both cases are ready and select takes either.
StatsTick ==
    /\ statsPc \in {"running", "stopping"}
    /\ \E ioFail \in BOOLEAN : SaveFault(ioFail) /\ save(ioFail)
    /\ UNCHANGED <<configVars, producerVars, handlerVars, lockVars,
                   recorderVars, writerVars, TotalSizeBytes, TotalSessions,
                   statsPc, loadErr, startErr, calls, ncalls, hist>>

\* stats.go:80-84 Stats.Save, called from outside
StatsSave ==
    /\ Started
    /\ \E ioFail \in BOOLEAN : SaveFault(ioFail) /\ save(ioFail)
    /\ UNCHANGED <<configVars, producerVars, handlerVars, lockVars,
                   recorderVars, writerVars, TotalSizeBytes, TotalSessions,
                   statsPc, loadErr, startErr, calls, ncalls, hist>>

\* stats.go:107-109 Stats.Stop: close(stopChan)
StatsStop ==
    /\ statsPc = "running"
    /\ statsPc' = "stopping"
    /\ UNCHANGED <<configVars, producerVars, handlerVars, lockVars,
                   recorderVars, writerVars, TotalSizeBytes, TotalSessions,
                   dirty, snapshot, lastSave, loadErr, startErr, calls,
                   ncalls, nfaults,
                   hist>>

\* a periodic-save goroutine that returns without its last save
StatsFinalSkip ==
    /\ statsPc = "stopping"
    /\ statsPc' = "stopped"
    /\ UNCHANGED <<configVars, producerVars, handlerVars, lockVars,
                   recorderVars, writerVars, TotalSizeBytes, TotalSessions,
                   dirty, snapshot, lastSave, nfaults,
                   loadErr, startErr, calls, ncalls, hist>>

\* stats.go:97-101: the periodic-save goroutine sees stopChan closed, saves
\* once more and returns
StatsFinalSave ==
    /\ statsPc = "stopping"
    /\ statsPc' = "stopped"
    /\ \E ioFail \in BOOLEAN : SaveFault(ioFail) /\ save(ioFail)
    /\ UNCHANGED <<configVars, producerVars, handlerVars, lockVars,
                   recorderVars, writerVars, TotalSizeBytes, TotalSessions,
                   loadErr, startErr, calls, ncalls, hist>>

\* The aggregator alone, from before NewStats, over any stats.json
InitStats ==
    /\ stoppedRecordings = {} /\ activeRecordings = {}
    /\ sessionInfo = <<>> /\ activeFiles = <<>>
    /\ handles = <<>> /\ disk = <<>> /\ totalSize = 0
    /\ TotalSizeBytes = 0 /\ TotalSessions = 0 /\ dirty = FALSE
    /\ snapshot \in Snapshots /\ statsPc = "new" /\ lastSave = 0
    /\ loadErr = "nil" /\ startErr = "nil"
    /\ calls = [p \in Procs |-> Idle]
    /\ ncalls = 0 /\ nfaults = 0
    /\ hist = [t \in Tabs |-> NoHist]
    /\ InitConfig /\ InitProducer /\ InitLocks /\ InitHandler

NextStats ==
    \/ StatsLoad
    \/ StatsStart
    \/ \E t \in Tabs : \E d \in Payloads(t) : StatsAddSize(Len(d))
    \/ StatsIncrementSession
    \/ StatsTick
    \/ StatsSave
    \/ StatsStop
    \/ StatsFinalSave

SpecStats == InitStats /\ [][NextStats]_vars

\* stats.go:86-105: the periodic-save goroutine is scheduled, its ticker
\* fires every statsSaveInterval and a ready select case is taken
SpecStatsLive ==
    SpecStats /\ WF_vars(StatsTick) /\ WF_vars(StatsFinalSave)

\* ---------------------------------------------------- the receiver at work
\* The state NewRecorderService, NewFileWriterService and NewStats leave
\* when no stats.json exists yet.
Init ==
    /\ stoppedRecordings = {} /\ activeRecordings = {}
    /\ sessionInfo = <<>> /\ activeFiles = <<>>
    /\ handles = <<>> /\ disk = <<>> /\ totalSize = 0
    /\ TotalSizeBytes = 0 /\ TotalSessions = 0 /\ dirty = FALSE
    /\ snapshot = Missing /\ statsPc = "running" /\ lastSave = 0
    /\ loadErr = "nil" /\ startErr = "nil"
    /\ calls = [p \in Procs |-> Idle]
    /\ ncalls = 0 /\ nfaults = 0
    /\ hist = [t \in Tabs |-> NoHist]
    /\ InitConfig /\ InitProducer /\ InitLocks /\ InitHandler

Next ==
    \/ \E p \in Procs, t \in Tabs, nm \in Names, ts \in Timestamps :
         \E d \in Payloads(t) : StreamBegin(p, t, nm, ts, d)
    \/ \E p \in Procs : CheckActive(p)
    \/ \E p \in Procs : NewSession(p)
    \/ \E p \in Procs : StoreInfo(p)
    \/ \E p \in Procs : StoreActive(p)
    \/ \E p \in Procs : GetHandle(p)
    \/ \E p \in Procs : EnsureDir(p)
    \/ \E p \in Procs : CreateFile(p)
    \/ \E p \in Procs : StoreHandle(p)
    \/ \E p \in Procs : Write(p)
    \/ \E p \in Procs : UpdateInfo(p)
    \/ \E p \in Procs, t \in Tabs : StopBegin(p, t)
    \/ \E p \in Procs : DeleteActive(p)
    \/ \E p \in Procs : DeleteInfo(p)
    \/ \E p \in Procs : TakeHandle(p)
    \/ \E p \in Procs : Close(p)
    \/ \E p \in Procs : Unmark(p)
    \/ \E p \in Procs, t \in Tabs, st \in OtherStatuses : DefaultBegin(p, t, st)
    \/ \E p \in Procs : UnknownStatus(p)

Spec == Init /\ [][Next]_vars

\* -------------------------------------------- the root changed at runtime
\* filewriter.go:105-106 SetDownloadDir(dir): fws.downloadDir = dir, with no
\* lock held
SetDir(dir) ==
    /\ cfgCall.pc = "idle" /\ cfgCall.n < MaxDirChanges
    /\ downloadDir' = dir
    /\ cfgCall' = [pc |-> "ensure", dir |-> dir, n |-> cfgCall.n + 1]
    /\ UNCHANGED <<dirs, producerVars, handlerVars, lockVars, recorderVars, writerVars,
                   statsVars,
                   calls, ncalls, nfaults, hist>>

\* filewriter.go:107-109 SetDownloadDir: ensureDirectory(dir), whose error
\* is only logged
EnsureNewDir ==
    /\ cfgCall.pc = "ensure"
    /\ \E ioFail \in BOOLEAN :
          /\ ioFail => (nfaults < MaxFaults /\ cfgCall.dir \notin dirs)
          /\ nfaults' = IF ioFail THEN nfaults + 1 ELSE nfaults
          /\ dirs' = IF ioFail THEN dirs ELSE dirs \cup {cfgCall.dir}
    /\ cfgCall' = [cfgCall EXCEPT !.pc = "idle"]
    /\ UNCHANGED <<downloadDir, producerVars, handlerVars, lockVars, recorderVars,
                   writerVars,
                   statsVars, calls, ncalls, hist>>

\* the requests made of the receiver while its root is being changed
ConfigTimestamps == {1000}
ConfigPayloads(t) == { <<10 * t + 1>> }

NextConfig ==
    \/ \E p \in Procs, t \in Tabs, nm \in Names, ts \in ConfigTimestamps :
         \E d \in ConfigPayloads(t) : StreamBegin(p, t, nm, ts, d)
    \/ \E p \in Procs : CheckActive(p)
    \/ \E p \in Procs : NewSession(p)
    \/ \E p \in Procs : StoreInfo(p)
    \/ \E p \in Procs : StoreActive(p)
    \/ \E p \in Procs : GetHandle(p)
    \/ \E p \in Procs : EnsureDir(p)
    \/ \E p \in Procs : CreateFile(p)
    \/ \E p \in Procs : StoreHandle(p)
    \/ \E p \in Procs : Write(p)
    \/ \E p \in Procs : UpdateInfo(p)
    \/ \E p \in Procs, t \in Tabs : StopBegin(p, t)
    \/ \E p \in Procs : DeleteActive(p)
    \/ \E p \in Procs : DeleteInfo(p)
    \/ \E p \in Procs : TakeHandle(p)
    \/ \E p \in Procs : Close(p)
    \/ \E p \in Procs : Unmark(p)
    \/ \E dir \in Dirs : SetDir(dir)
    \/ EnsureNewDir

SpecConfig == Init /\ [][NextConfig]_vars

\* ------------------------------------------- the locks taken step by step
\* WriteChunk, CloseFile and the BytesWritten update with every lock
\* operation, I/O operation and memory access a step of its own.

\* filewriter.go:52 handle.mu.Lock() in WriteChunk
LockWrite(p) ==
    /\ calls[p].pc = "write"
    /\ mu[calls[p].handle] = NoProc
    /\ mu' = [mu EXCEPT ![calls[p].handle] = p]
    /\ calls' = [calls EXCEPT ![p].pc = "bufWrite"]
    /\ UNCHANGED <<configVars, producerVars, handlerVars, totalSizeMu, loaded,
                   recorderVars, writerVars, statsVars, ncalls, nfaults,
                   hist>>

\* filewriter.go:56-60 handle.writer.Write(data); on its error the deferred
\* Unlock runs and the error goes back through recorder.go:63-66
BufferWrite(p) ==
    /\ calls[p].pc = "bufWrite"
    /\ LET c == calls[p]
           h == handles[c.handle]
       IN  \E ioFail \in BOOLEAN :
             /\ ioFail => MayFail(h)
             /\ nfaults' = IF ioFail THEN nfaults + 1 ELSE nfaults
             /\ LET w == BufWrite([h |-> h, content |-> disk[h.name]],
                                  c.data, 0, ioFail)
                IN  /\ handles' = [handles EXCEPT ![c.handle] = w.h]
                    /\ disk' = [disk EXCEPT ![h.name] = w.content]
                    /\ IF w.err
                       THEN /\ calls' = [calls EXCEPT ![p] =
                                   Returned(c, "disk write failed")]
                            /\ mu' = [mu EXCEPT ![c.handle] = NoProc]
                       ELSE /\ calls' = [calls EXCEPT ![p].pc = "lockTotal"]
                            /\ UNCHANGED mu
    /\ UNCHANGED <<configVars, producerVars, handlerVars, totalSizeMu, loaded,
                   recorderVars, activeFiles, totalSize, statsVars, ncalls,
                   hist>>

\* filewriter.go:63 fws.totalSizeMu.Lock()
LockTotal(p) ==
    /\ calls[p].pc = "lockTotal"
    /\ totalSizeMu = NoProc
    /\ totalSizeMu' = p
    /\ calls' = [calls EXCEPT ![p].pc = "addTotal"]
    /\ UNCHANGED <<configVars, producerVars, handlerVars, mu, loaded, recorderVars,
                   writerVars, statsVars, ncalls, nfaults, hist>>

\* an addition that keeps totalSizeMu locked
AddTotalKeep(p) ==
    /\ calls[p].pc = "addTotal"
    /\ totalSize' = totalSize + Len(calls[p].data)
    /\ calls' = [calls EXCEPT ![p].pc = "flush"]
    /\ UNCHANGED <<configVars, producerVars, handlerVars, lockVars, recorderVars,
                   activeFiles, handles, disk, statsVars, ncalls, nfaults,
                   hist>>

\* filewriter.go:64-65 fws.totalSize += int64(bytesWritten), Unlock; Write
\* returns len(data) whenever it returns no error
AddTotal(p) ==
    /\ calls[p].pc = "addTotal"
    /\ totalSize' = totalSize + Len(calls[p].data)
    /\ totalSizeMu' = NoProc
    /\ calls' = [calls EXCEPT ![p].pc = "flush"]
    /\ UNCHANGED <<configVars, producerVars, handlerVars, mu, loaded, recorderVars,
                   activeFiles, handles, disk, statsVars, ncalls, nfaults,
                   hist>>

\* filewriter.go:68-74 handle.writer.Flush(), return, the deferred Unlock
FlushWrite(p) ==
    /\ calls[p].pc = "flush"
    /\ LET c == calls[p]
           h == handles[c.handle]
       IN  \E ioFail \in BOOLEAN :
             /\ ioFail => MayFail(h)
             /\ nfaults' = IF ioFail THEN nfaults + 1 ELSE nfaults
             /\ LET fl == Flush([h |-> h, content |-> disk[h.name]], ioFail)
                IN  /\ handles' = [handles EXCEPT ![c.handle] = fl.h]
                    /\ disk' = [disk EXCEPT ![h.name] = fl.content]
                    /\ IF fl.err
                       THEN /\ calls' = [calls EXCEPT ![p] =
                                   Returned(c, "disk flush failed")]
                            /\ UNCHANGED hist
                       ELSE /\ calls' = [calls EXCEPT ![p].pc = "updInfo"]
                            /\ hist' = [hist EXCEPT ![c.tabID] =
                                   [@ EXCEPT !.accepted = Append(@, c.data),
                                             !.okBytes = @ + Len(c.data)]]
             /\ mu' = [mu EXCEPT ![c.handle] = NoProc]
    /\ UNCHANGED <<configVars, producerVars, handlerVars, totalSizeMu, loaded,
                   recorderVars, activeFiles, totalSize, statsVars, ncalls>>

\* recorder.go:68-73 sessionInfo.Load(tabID): the pointer to the session's
\* SessionInfo, and the read of its BytesWritten that += begins with; with
\* no entry the call returns nil
LoadInfo(p) ==
    /\ calls[p].pc = "updInfo"
    /\ LET c == calls[p] IN
        IF c.tabID \in DOMAIN sessionInfo
        THEN /\ loaded' = [loaded EXCEPT ![p] =
                    [tab |-> c.tabID, val |-> sessionInfo[c.tabID],
                     live |-> TRUE]]
             /\ calls' = [calls EXCEPT ![p].pc = "addInfo"]
        ELSE /\ calls' = [calls EXCEPT ![p] = Returned(c, "ok")]
             /\ UNCHANGED loaded
    /\ UNCHANGED <<configVars, producerVars, handlerVars, mu, totalSizeMu, recorderVars,
                   writerVars, statsVars, ncalls, nfaults, hist>>

\* recorder.go:74-77 the write that += ends with, no lock held, and the
\* return: the sum goes to the SessionInfo that was loaded, which the map
\* still holds or no longer holds
AddInfo(p) ==
    /\ calls[p].pc = "addInfo"
    /\ LET c == calls[p] IN
        /\ sessionInfo' =
             IF loaded[p].live
             THEN [sessionInfo EXCEPT ![c.tabID] = loaded[p].val + Len(c.data)]
             ELSE sessionInfo
        /\ calls' = [calls EXCEPT ![p] = Returned(c, "ok")]
    /\ loaded' = [loaded EXCEPT ![p] = NoInfo]
    /\ UNCHANGED <<configVars, producerVars, handlerVars, mu, totalSizeMu,
                   stoppedRecordings, activeRecordings, writerVars, statsVars,
                   ncalls, nfaults, hist>>

\* filewriter.go:86-88 handle.mu.Lock() in CloseFile
LockClose(p) ==
    /\ calls[p].pc = "close"
    /\ mu[calls[p].handle] = NoProc
    /\ mu' = [mu EXCEPT ![calls[p].handle] = p]
    /\ calls' = [calls EXCEPT ![p].pc = "closing"]
    /\ UNCHANGED <<configVars, producerVars, handlerVars, totalSizeMu, loaded,
                   recorderVars, writerVars, statsVars, ncalls, nfaults,
                   hist>>

\* filewriter.go:90-102 the final Flush and file.Close under the lock, the
\* deferred Unlock, and recorder.go:85-88 on the close error
CloseLocked(p) ==
    /\ calls[p].pc = "closing"
    /\ LET c == calls[p]
           h == handles[c.handle]
           fl == Flush([h |-> h, content |-> disk[h.name]], FALSE)
       IN  \E ioFail \in BOOLEAN :
             /\ ioFail => MayFail(h)
             /\ nfaults' = IF ioFail THEN nfaults + 1 ELSE nfaults
             /\ handles' = [handles EXCEPT ![c.handle] =
                               [fl.h EXCEPT !.closed = TRUE,
                                            !.closes = @ + 1]]
             /\ disk' = [disk EXCEPT ![h.name] = fl.content]
             /\ mu' = [mu EXCEPT ![c.handle] = NoProc]
             /\ IF h.closed \/ ioFail
                THEN /\ calls' = [calls EXCEPT ![p] =
                                     Returned(c, "failed to close file")]
                     /\ hist' = [hist EXCEPT ![c.tabID].accepted = <<>>,
                                             ![c.tabID].stopDone = TRUE]
                ELSE /\ calls' = [calls EXCEPT ![p].pc = "unmark"]
                     /\ hist' = [hist EXCEPT ![c.tabID].accepted = <<>>]
    /\ UNCHANGED <<configVars, producerVars, handlerVars, totalSizeMu, loaded,
                   recorderVars, activeFiles, totalSize, statsVars, ncalls>>

\* what a call does without the disk
MemoryStep(p) ==
    \/ CheckActive(p) \/ NewSession(p) \/ StoreInfo(p) \/ StoreActive(p)
    \/ GetHandle(p) \/ StoreHandle(p)
    \/ LockWrite(p) \/ LockTotal(p) \/ AddTotal(p)
    \/ LoadInfo(p) \/ AddInfo(p)
    \/ DeleteActive(p) \/ DeleteInfo(p) \/ TakeHandle(p)
    \/ LockClose(p) \/ Unmark(p)

\* what a call does on the disk
DiskStep(p) ==
    \/ EnsureDir(p) \/ CreateFile(p)
    \/ BufferWrite(p) \/ FlushWrite(p) \/ CloseLocked(p)

NextLocks ==
    \/ \E p \in Procs, t \in Tabs, nm \in Names, ts \in ConfigTimestamps :
         \E d \in ConfigPayloads(t) : StreamBegin(p, t, nm, ts, d)
    \/ \E p \in Procs, t \in Tabs : StopBegin(p, t)
    \/ \E p \in Procs : MemoryStep(p)
    \/ \E p \in Procs : DiskStep(p)

SpecLocks == Init /\ [][NextLocks]_vars

\* the session whose disk operations may take for ever
SlowTab == 9

\* A goroutine that can run does run, and the disk answers every operation
\* of a session other than the slow one.
SpecLocksLive ==
    /\ SpecLocks
    /\ \A p \in Procs : WF_vars(MemoryStep(p))
    /\ \A p \in Procs : WF_vars(calls[p].tabID # SlowTab /\ DiskStep(p))


\* ------------------------------------------------- the recordings handler
\* RecordingsHandler.Handle in front of HandleRecording. A request body is
\* bytes that are a JSON object of a RecordingData's shape ("object"), a JSON
\* object with a field of the wrong type ("mistyped"), or no JSON at all
\* ("garbage"). The data field is text; each of its symbols stands for the
\* characters that encode one byte, or is a character outside the base64
\* alphabet.
BadChar == 0
B64Offset == 100

\* part_001:51 btoa
btoa(bytes) == [i \in 1..Len(bytes) |-> bytes[i] + B64Offset]

\* a decoder that skips what it cannot decode
DecodeStringLax(text) ==
    LET good == SelectSeq(text, LAMBDA c : c # BadChar) IN
    [err |-> FALSE, bytes |-> [i \in 1..Len(good) |-> good[i] - B64Offset]]

\* recordings.go:35 base64.StdEncoding.DecodeString
DecodeString(text) ==
    IF \E i \in 1..Len(text) : text[i] = BadChar
    THEN [err |-> TRUE, bytes |-> <<>>]
    ELSE [err |-> FALSE, bytes |-> [i \in 1..Len(text) |-> text[i] - B64Offset]]

\* recordings.go:24-25 json.NewDecoder(r.Body).Decode(&data)
Decode(body) == [err |-> body.kind # "object"]

Body(kind, t, nm, ts, text, st) ==
    [pc |-> "received", kind |-> kind, tabId |-> t, name |-> nm,
     timestamp |-> ts, data |-> text, status |-> st, code |-> 0]

\* the bodies sent: chunks as the producer posts them (part_001:54-60),
\* chunks whose data is no base64, Stops with and without a data field
\* that is no base64, and bodies that are no RecordingData
Bodies ==
    {Body("garbage", NoTab, "", 0, <<>>, ""),
     Body("mistyped", NoTab, "", 0, <<>>, "")}
    \cup UNION {
         {Body("object", t, nm, ts, btoa(d), "stream") :
              d \in ConfigPayloads(t)}
         \cup {Body("object", t, nm, ts, text, st) :
                  text \in {<<>>, <<BadChar>>}, st \in {"stream", "stopped"}}
         : t \in Tabs, nm \in Names, ts \in ConfigTimestamps}

\* a request reaches the server
Arrive(body) ==
    /\ request = NoRequest /\ ncalls < MaxCalls
    /\ request' = body
    /\ UNCHANGED <<recorderVars, writerVars, statsVars, calls, ncalls,
                   nfaults, hist, configVars, lockVars, producerVars>>

\* recordings.go:27-28, 38-39: http.Error(w, ..., http.StatusBadRequest)
BadRequest ==
    /\ request' = [request EXCEPT !.pc = "answered", !.code = 400]
    /\ UNCHANGED <<recorderVars, writerVars, statsVars, calls, ncalls,
                   nfaults, hist, configVars, lockVars, producerVars>>

\* recordings.go:23-43 RecordingsHandler.Handle up to its call of
\* HandleRecording, in the goroutine the server runs it in
Handle(p) ==
    /\ request.pc = "received"
    /\ Serves(p)
    /\ IF Decode(request).err
       THEN BadRequest
       ELSE IF request.status = "stream"
       THEN LET r == DecodeString(request.data) IN
            IF r.err
            THEN BadRequest
            ELSE StreamBegin(p, request.tabId, request.name,
                             request.timestamp, r.bytes)
       ELSE IF request.status = "stopped"
       THEN StopBegin(p, request.tabId)
       ELSE DefaultBegin(p, request.tabId, request.status)

\* recordings.go:28, 39: the handler returns, the response is sent
Answered ==
    /\ request.pc = "answered"
    /\ request' = NoRequest
    /\ UNCHANGED <<recorderVars, writerVars, statsVars, calls, ncalls,
                   nfaults, hist, configVars, lockVars, producerVars>>

NextHandler ==
    \/ \E body \in Bodies : Arrive(body)
    \/ \E p \in Procs : Handle(p)
    \/ Answered
    \/ \E p \in Procs : CheckActive(p)
    \/ \E p \in Procs : NewSession(p)
    \/ \E p \in Procs : StoreInfo(p)
    \/ \E p \in Procs : StoreActive(p)
    \/ \E p \in Procs : GetHandle(p)
    \/ \E p \in Procs : EnsureDir(p)
    \/ \E p \in Procs : CreateFile(p)
    \/ \E p \in Procs : StoreHandle(p)
    \/ \E p \in Procs : Write(p)
    \/ \E p \in Procs : UpdateInfo(p)
    \/ \E p \in Procs : DeleteActive(p)
    \/ \E p \in Procs : DeleteInfo(p)
    \/ \E p \in Procs : TakeHandle(p)
    \/ \E p \in Procs : Close(p)
    \/ \E p \in Procs : Unmark(p)

SpecHandler == Init /\ [][NextHandler]_vars


\* ------------------------------------------------ the capture producer
\* The offscreen document (part_001) and the background script (main.go
\* from line 95) run one callback at a time each.  The recordings modelled
\* are backend-mode ones unless said otherwise.  A notification the
\* offscreen document sends is handled by the background script in the same
\* step.  main.go:275-286: set-backend-mode and start-recording are sent
\* one after the other and travel as one message here, which the offscreen
\* document handles in one step.
StartMsg(t, useBackend) ==
    [type |-> "start-recording", tabId |-> t, useBackend |-> useBackend]
StopMsg(t) == [type |-> "stop-recording", tabId |-> t]

Recording(t) ==
    t \in DOMAIN activeRecorders /\ activeRecorders[t] = "recording"

\* main.go:257-286 handleStartRecording with its awaits settling at once:
\* a tab not yet in activeRecordings is entered there and set-backend-mode
\* and start-recording are sent to the offscreen document.
\* A tab that was closed or has navigated is not recorded again.
UserStart(t, useBackend) ==
    /\ t \notin bgRecordings /\ ~seen[t].cancelled
    /\ acquiring[t] = 0
    /\ nstarts < MaxStarts /\ Len(inbox) < MaxInbox
    /\ nstarts' = nstarts + 1
    /\ bgRecordings' = bgRecordings \cup {t}
    /\ inbox' = Append(inbox, StartMsg(t, useBackend))
    /\ seen' = [seen EXCEPT ![t] = [NoSeen EXCEPT !.useBackend = useBackend]]
    /\ UNCHANGED <<receiverVars, modeVars, startVars, pendingChunks, stopRequested, stopResolve,
                   activeRecorders, recordingMetadata, starting, mediaEvents,
                   sending, onstop, nfails>>

\* a handleStopRecording that sends nothing
handleStopRecordingSilent(t) == inbox

\* main.go:312-327 handleStopRecording: for a tab in activeRecordings the
\* stop-recording message is sent to the offscreen document
handleStopRecording(t) ==
    IF t \in bgRecordings THEN Append(inbox, StopMsg(t)) ELSE inbox

\* main.go:116-117: the operator's stop-recording request, made once of a
\* recording
UserStop(t) ==
    /\ t \in bgRecordings /\ ~seen[t].stopped
    /\ Len(inbox) < MaxInbox
    /\ inbox' = handleStopRecording(t)
    /\ seen' = [seen EXCEPT ![t].stopped = TRUE]
    /\ UNCHANGED <<receiverVars, modeVars, startVars, pendingChunks, stopRequested, stopResolve,
                   activeRecorders, recordingMetadata, starting, mediaEvents,
                   sending, onstop, bgRecordings, nstarts, nfails>>

\* main.go:363-368 chrome.tabs.onRemoved: a recorded tab is closed
TabRemoved(t) ==
    /\ t \in bgRecordings /\ ~seen[t].cancelled
    /\ Len(inbox) < MaxInbox
    /\ inbox' = handleStopRecording(t)
    /\ seen' = [seen EXCEPT ![t].cancelled = TRUE]
    /\ UNCHANGED <<receiverVars, modeVars, startVars, pendingChunks, stopRequested, stopResolve,
                   activeRecorders, recordingMetadata, starting, mediaEvents,
                   sending, onstop, bgRecordings, nstarts, nfails>>

\* main.go:370-375 chrome.tabs.onUpdated with changeInfo.url: a recorded
\* tab goes to another URL
TabUpdated(t) ==
    /\ t \in bgRecordings /\ ~seen[t].cancelled
    /\ Len(inbox) < MaxInbox
    /\ inbox' = handleStopRecording(t)
    /\ seen' = [seen EXCEPT ![t].cancelled = TRUE]
    /\ UNCHANGED <<receiverVars, modeVars, startVars, pendingChunks, stopRequested, stopResolve,
                   activeRecorders, recordingMetadata, starting, mediaEvents,
                   sending, onstop, bgRecordings, nstarts, nfails>>

\* part_001:110-115 the set-backend-mode handler, then 119-129 the
\* start-recording handler up to its await: the module-wide mode is set and
\* the module-wide stop state is reset, whatever tab it was about
StartRecording(t) ==
    /\ inbox # <<>> /\ Head(inbox).type = "start-recording"
    /\ Head(inbox).tabId = t
    /\ inbox' = Tail(inbox)
    /\ useBackendMode' = Head(inbox).useBackend
    /\ stopRequested' = FALSE
    /\ pendingChunks' = 0
    /\ stopResolve' = NoTab
    /\ starting' = starting \cup {t}
    /\ UNCHANGED <<receiverVars, recordedChunksMap, startVars,
                   activeRecorders, recordingMetadata,
                   mediaEvents, sending, onstop, bgRecordings, seen, nstarts,
                   nfails>>

\* part_001:14-22 sendRecordingError and main.go:138-147: the background
\* script drops the tab from its activeRecordings
sendRecordingError(t) ==
    /\ seen' = [seen EXCEPT ![t].notes = @ \cup {"recording-error"}]
    /\ bgRecordings' = bgRecordings \ {t}

\* part_001:129-162, 291, 299-301: getUserMedia settles; the recorder is
\* made and started, or the failure is reported
CaptureStarted(t) ==
    /\ t \in starting
    /\ starting' = starting \ {t}
    /\ \/ /\ recordingMetadata' = recordingMetadata \cup {t}
          /\ activeRecorders' = MapStore(activeRecorders, t, "recording")
          /\ mediaEvents' = [mediaEvents EXCEPT ![t] = <<>>]
          /\ UNCHANGED <<bgRecordings, seen, nfails>>
       \/ /\ nfails < MaxFails
          /\ nfails' = nfails + 1
          /\ sendRecordingError(t)
          /\ UNCHANGED <<recordingMetadata, activeRecorders, mediaEvents>>
    /\ UNCHANGED <<receiverVars, modeVars, startVars, pendingChunks, stopRequested, stopResolve,
                   sending, onstop, inbox, nstarts>>

\* MediaRecorder.stop(): the recorder goes inactive and queues a last
\* dataavailable event and the stop event
RecorderStop(t, last) ==
    /\ activeRecorders' = [activeRecorders EXCEPT ![t] = "inactive"]
    /\ mediaEvents' = [mediaEvents EXCEPT ![t] = @ \o <<last, "stop">>]

\* part_001:302-323 the stop-recording handler: stopRequested is set for
\* the module; a recorder that is not inactive gets requestData and stop.
\* requestData's blob holds what was recorded, so the blob stop fires right
\* after it is empty and fails the size test of line 165: one data event
\* and the stop event are queued.
StopRecording(t) ==
    /\ inbox # <<>> /\ Head(inbox).type = "stop-recording"
    /\ Head(inbox).tabId = t
    /\ inbox' = Tail(inbox)
    /\ stopRequested' = TRUE
    /\ IF Recording(t)
       THEN \E last \in {"data", "small"} : RecorderStop(t, last)
       ELSE UNCHANGED <<activeRecorders, mediaEvents>>
    /\ UNCHANGED <<receiverVars, modeVars, startVars, pendingChunks, stopResolve,
                   recordingMetadata, starting, sending, onstop,
                   bgRecordings, seen, nstarts, nfails>>

\* part_001:164-199 ondataavailable and 30-36 sendChunkToBackend up to its
\* first await: a blob under 1000 bytes is skipped; in standalone mode the
\* chunk is pushed on the tab's local list; in backend mode, with
\* stopRequested set the chunk is ignored, else it is counted in flight and
\* posted
ondataavailable(t, size) ==
    IF size = "small" \/ t \notin recordingMetadata
    THEN UNCHANGED <<pendingChunks, sending, seen, recordedChunksMap>>
    ELSE IF ~useBackendMode
    THEN /\ recordedChunksMap' = [recordedChunksMap EXCEPT ![t] = @ + 1]
         /\ UNCHANGED <<pendingChunks, sending, seen>>
    ELSE IF stopRequested
    THEN /\ seen' = [seen EXCEPT ![t].made = @ + 1]
         /\ UNCHANGED <<pendingChunks, sending, recordedChunksMap>>
    ELSE /\ pendingChunks' = pendingChunks + 1
         /\ sending' = [sending EXCEPT ![t] = @ + 1]
         /\ seen' = [seen EXCEPT ![t].made = @ + 1, ![t].posted = @ + 1]
         /\ UNCHANGED recordedChunksMap

\* part_001:291 mediaRecorder.start(1000): a timeslice ends while the
\* recorder records, and its blob is large enough
ChunkReady(t) ==
    /\ Recording(t) /\ seen[t].made + recordedChunksMap[t] < MaxChunks
    /\ ondataavailable(t, "data")
    /\ UNCHANGED <<receiverVars, useBackendMode, startVars,
                   stopRequested, stopResolve, activeRecorders,
                   recordingMetadata, starting, mediaEvents, onstop, inbox,
                   bgRecordings, nstarts, nfails>>

\* a dataavailable event the recorder queued when it was stopped
QueuedData(t) ==
    /\ mediaEvents[t] # <<>> /\ Head(mediaEvents[t]) # "stop"
    /\ ondataavailable(t, Head(mediaEvents[t]))
    /\ mediaEvents' = [mediaEvents EXCEPT ![t] = Tail(@)]
    /\ UNCHANGED <<receiverVars, useBackendMode, startVars,
                   stopRequested, stopResolve, activeRecorders,
                   recordingMetadata, starting, onstop, inbox, bgRecordings,
                   nstarts, nfails>>

\* the Stop request of tab t is posted (part_001:211-227)
PostStop(t) ==
    [u \in Tabs |-> IF u = t THEN "stopping" ELSE onstop[u]]

\* part_001:65-94 a chunk's fetch settles, well or not; finally: the count
\* goes down, and with stopRequested set, the count at zero and a resolve
\* function stored, that function is called; then 189-192: on failure
\* ondataavailable calls mediaRecorder.stop(), which throws on a recorder
\* that is inactive already
ChunkSettled(t, ok) ==
    /\ sending[t] > 0
    /\ ~ok => nfails < MaxFails
    /\ nfails' = IF ok THEN nfails ELSE nfails + 1
    /\ pendingChunks' = pendingChunks - 1
    /\ sending' = [sending EXCEPT ![t] = @ - 1]
    /\ LET released == /\ stopRequested /\ pendingChunks - 1 = 0
                       /\ stopResolve # NoTab
                       /\ onstop[stopResolve] = "draining"
       IN  onstop' = IF released THEN PostStop(stopResolve) ELSE onstop
    /\ seen' = [seen EXCEPT ![t].failed = IF ok THEN @ ELSE @ + 1]
    /\ IF ~ok /\ Recording(t)
       THEN \E last \in {"data", "small"} : RecorderStop(t, last)
       ELSE UNCHANGED <<activeRecorders, mediaEvents>>
    /\ UNCHANGED <<receiverVars, modeVars, startVars, stopRequested, stopResolve,
                   recordingMetadata, starting, inbox, bgRecordings, nstarts>>

\* part_001:203-209, 97-107 onstop in backend mode, and
\* waitForPendingChunks: with the count at zero the Stop request is posted
\* at once; else the resolve function is stored and the handler waits.
\* part_001:244-284 onstop in standalone mode: with no chunk on the tab's
\* list the throw skips the teardown and the error is reported; else
\* save-recording is sent (main.go:344-361 downloads and drops the tab),
\* the list and the tab's entries are deleted and the module-wide stop
\* state is reset.
OnStop(t) ==
    /\ mediaEvents[t] # <<>> /\ Head(mediaEvents[t]) = "stop"
    /\ mediaEvents' = [mediaEvents EXCEPT ![t] = Tail(@)]
    /\ IF useBackendMode
       THEN /\ IF pendingChunks = 0
               THEN /\ onstop' = PostStop(t)
                    /\ UNCHANGED stopResolve
               ELSE /\ onstop' = [onstop EXCEPT ![t] = "draining"]
                    /\ stopResolve' = t
            /\ UNCHANGED <<pendingChunks, stopRequested, activeRecorders,
                           recordingMetadata, bgRecordings, seen,
                           recordedChunksMap>>
       ELSE IF recordedChunksMap[t] = 0
       THEN /\ sendRecordingError(t)
            /\ UNCHANGED <<pendingChunks, stopRequested, stopResolve,
                           activeRecorders, recordingMetadata, onstop,
                           recordedChunksMap>>
       ELSE /\ seen' = [seen EXCEPT ![t].notes = @ \cup {"save-recording"}]
            /\ bgRecordings' = bgRecordings \ {t}
            /\ recordedChunksMap' = [recordedChunksMap EXCEPT ![t] = 0]
            /\ recordingMetadata' = recordingMetadata \ {t}
            /\ activeRecorders' = MapDelete(activeRecorders, t)
            /\ stopRequested' = FALSE
            /\ pendingChunks' = 0
            /\ stopResolve' = NoTab
            /\ UNCHANGED onstop
    /\ UNCHANGED <<receiverVars, useBackendMode, startVars, starting,
                   sending, inbox, nstarts, nfails>>

\* part_001:229-284 the Stop request settles.  Acknowledged: the completion
\* is notified (main.go:131-137 drops the tab), the tab's entries are
\* deleted and the module-wide stop state is reset.  Failed: the throw skips
\* all of that and the error is reported.
StopSettled(t, ok) ==
    /\ onstop[t] = "stopping"
    /\ onstop' = [onstop EXCEPT ![t] = "none"]
    /\ ~ok => nfails < MaxFails
    /\ nfails' = IF ok THEN nfails ELSE nfails + 1
    /\ IF ok
       THEN /\ seen' = [seen EXCEPT
                           ![t].notes = @ \cup {"recording-complete"}]
            /\ bgRecordings' = bgRecordings \ {t}
            /\ recordingMetadata' = recordingMetadata \ {t}
            /\ activeRecorders' = MapDelete(activeRecorders, t)
            /\ stopRequested' = FALSE
            /\ pendingChunks' = 0
            /\ stopResolve' = NoTab
       ELSE /\ sendRecordingError(t)
            /\ UNCHANGED <<recordingMetadata, activeRecorders, stopRequested,
                           pendingChunks, stopResolve>>
    /\ UNCHANGED <<receiverVars, modeVars, startVars, starting, mediaEvents, sending, inbox,
                   nstarts>>

\* the callbacks of the offscreen document and of the transport
ProducerStep ==
    \/ \E t \in Tabs : StartRecording(t)
    \/ \E t \in Tabs : CaptureStarted(t)
    \/ \E t \in Tabs : StopRecording(t)
    \/ \E t \in Tabs : QueuedData(t)
    \/ \E t \in Tabs : OnStop(t)
    \/ \E t \in Tabs, ok \in BOOLEAN : ChunkSettled(t, ok)
    \/ \E t \in Tabs, ok \in BOOLEAN : StopSettled(t, ok)

NextProducer ==
    \/ \E t \in Tabs : UserStart(t, TRUE)
    \/ \E t \in Tabs : UserStop(t)
    \/ \E t \in Tabs : TabRemoved(t)
    \/ \E t \in Tabs : TabUpdated(t)
    \/ \E t \in Tabs : ChunkReady(t)
    \/ ProducerStep

SpecProducer == Init /\ [][NextProducer]_vars

\* The browser runs every queued callback and every fetch settles: the
\* steps of the offscreen document and of the transport are not put off for
\* ever.  What the operator, the tabs and the encoder's timer do is free.
SpecProducerLive == SpecProducer /\ WF_vars(ProducerStep)

\* ------------------------------------------------- the two delivery modes
\* Recordings started in either mode, with every fetch succeeding and no
\* tab closed or navigated.
ProducerStepOk ==
    \/ \E t \in Tabs : StartRecording(t)
    \/ \E t \in Tabs : CaptureStarted(t)
    \/ \E t \in Tabs : StopRecording(t)
    \/ \E t \in Tabs : QueuedData(t)
    \/ \E t \in Tabs : OnStop(t)
    \/ \E t \in Tabs : ChunkSettled(t, TRUE)
    \/ \E t \in Tabs : StopSettled(t, TRUE)

NextModes ==
    \/ \E t \in Tabs, useBackend \in BOOLEAN : UserStart(t, useBackend)
    \/ \E t \in Tabs : UserStop(t)
    \/ \E t \in Tabs : ChunkReady(t)
    \/ ProducerStepOk

SpecModes == Init /\ [][NextModes]_vars

\* ------------------------------------- start requests at their awaits
\* main.go:257-262 handleStartRecording up to its first await: a request
\* for a tab in activeRecordings is answered 'Already recording this tab';
\* any other goes on to await the offscreen document and the stream id
StartRequested(t) ==
    /\ ~seen[t].cancelled /\ nstarts < MaxStarts
    /\ nstarts' = nstarts + 1
    /\ IF t \in bgRecordings
       THEN /\ seen' = [seen EXCEPT ![t].notes = @ \cup {"already-recording"}]
            /\ UNCHANGED acquiring
       ELSE /\ acquiring' = [acquiring EXCEPT ![t] = @ + 1]
            /\ UNCHANGED seen
    /\ UNCHANGED <<receiverVars, modeVars, pendingChunks, stopRequested,
                   stopResolve, activeRecorders, recordingMetadata, starting,
                   mediaEvents, sending, onstop, inbox, bgRecordings, nfails>>

\* main.go:264-286 the awaits of a start request settle: the tab is entered
\* in activeRecordings and set-backend-mode and start-recording are sent;
\* main.go:296-301: or an await throws, and the catch drops the tab from
\* activeRecordings and reports the error
StartAcquired(t, useBackend, ok) ==
    /\ acquiring[t] > 0
    /\ acquiring' = [acquiring EXCEPT ![t] = @ - 1]
    /\ ~ok => nfails < MaxFails
    /\ nfails' = IF ok THEN nfails ELSE nfails + 1
    /\ IF ok
       THEN /\ Len(inbox) < MaxInbox
            /\ bgRecordings' = bgRecordings \cup {t}
            /\ inbox' = Append(inbox, StartMsg(t, useBackend))
            /\ seen' = [seen EXCEPT ![t].useBackend = useBackend]
       ELSE /\ sendRecordingError(t)
            /\ UNCHANGED inbox
    /\ UNCHANGED <<receiverVars, modeVars, pendingChunks, stopRequested,
                   stopResolve, activeRecorders, recordingMetadata, starting,
                   mediaEvents, sending, onstop, nstarts>>

NextStarts ==
    \/ \E t \in Tabs : StartRequested(t)
    \/ \E t \in Tabs, ok \in BOOLEAN : StartAcquired(t, TRUE, ok)
    \/ \E t \in Tabs : UserStop(t)
    \/ \E t \in Tabs : ChunkReady(t)
    \/ ProducerStepOk

SpecStarts == Init /\ [][NextStarts]_vars

\* ------------------------------------------------------------ properties
HandleIds == 1..Len(handles)
HandlesOf(t) == {i \in HandleIds : handles[i].tab = t}
OpenHandlesOf(t) == {i \in HandlesOf(t) : ~handles[i].closed}
Quiet == \A p \in Procs : Free(p)

RECURSIVE SumOver(_, _)
SumOver(S, f) ==
    IF S = {} THEN 0
    ELSE LET x == CHOOSE y \in S : TRUE IN f[x] + SumOver(S \ {x}, f)

\* C1: once a Stop has completed for a session whose file it closed, no
\* later "stream" call for that id gets past the stopped check: it returns
\* "already stopped", so it creates no handle and touches no file.
C1_DataAfterStopRejected ==
    \A p \in Procs :
        (/\ calls[p].status = "stream"
         /\ calls[p].afterStop
         /\ \E i \in HandlesOf(calls[p].tabID) : handles[i].closed)
        => Free(p)

\* C2: at most one open file handle exists per session id, in every
\* reachable state and under any interleaving of the calls.
C2_OneOpenHandlePerSession ==
    \A t \in Tabs : Cardinality(OpenHandlesOf(t)) <= 1

\* C3: Stop is idempotent: no file is closed more than once, and a Stop that
\* reaches the close holds a handle no other Stop has closed, so a second
\* Stop, after or beside the first, finds no handle and returns nil.
C3_StopIdempotent ==
    /\ \A i \in HandleIds : handles[i].closes <= 1
    /\ \A p \in Procs :
          calls[p].pc = "close" =>
              /\ ~handles[calls[p].handle].closed
              /\ \A q \in Procs :
                    (q # p /\ calls[q].pc = "close") =>
                        calls[q].handle # calls[p].handle

\* C3 witness: a second Stop for a tab whose file the first Stop closed has
\* found no handle and is about to return nil.
C3_Witness ==
    \E p \in Procs :
        /\ calls[p].status = "stopped" /\ calls[p].pc = "unmark"
        /\ calls[p].handle = NoHandle
        /\ hist[calls[p].tabID].stops >= 2
        /\ \E i \in HandlesOf(calls[p].tabID) : handles[i].closes = 1

\* C4: when Stop closes a session's file, the file holds exactly the
\* payloads of the Data chunks accepted for the session, in the order they
\* were accepted.
C4_FileIsAcceptedChunks ==
    [][\A p \in Procs :
          (calls[p].pc = "close" /\ calls'[p].pc # "close") =>
              disk'[handles[calls[p].handle].name]
                  = Flatten(hist[calls[p].tabID].accepted)]_vars

\* C5: two sessions written at the same time do not mix: a file of a tab
\* holds bytes of that tab alone, and while a session's own calls come one
\* after the other its open file is exactly its accepted payloads in the
\* order they were submitted.
C5_SessionsDoNotMix ==
    /\ \A i \in HandleIds :
          \A k \in 1..Len(disk[handles[i].name]) :
              disk[handles[i].name][k] \in
                  {0} \cup UNION {{d[j] : j \in 1..Len(d)} :
                                      d \in Payloads(handles[i].tab)}
    /\ \A t \in Tabs :
          (~hist[t].overlap /\ t \in DOMAIN activeFiles) =>
              disk[handles[activeFiles[t]].name] = Flatten(hist[t].accepted)

\* C5 witness: chunks of tab 5 and tab 9 have been written by two calls in
\* progress together, tab 5 being at its second chunk.
C5_Witness ==
    /\ \A t \in Tabs : ~hist[t].overlap /\ t \in DOMAIN activeFiles
    /\ \E p, q \in Procs :
          /\ calls[p].tabID = 5 /\ calls[p].pc = "updInfo"
          /\ calls[q].tabID = 9 /\ calls[q].pc = "updInfo"
    /\ Len(hist[5].accepted) = 2 /\ Len(hist[9].accepted) = 1

\* a tab whose calls were Data chunks, at least one accepted, all begun
\* before its one Stop, which has returned
StoppedOnce(t) ==
    /\ hist[t].okBytes > 0 /\ hist[t].stops = 1
    /\ hist[t].stopDone /\ ~hist[t].late

\* C6: totalSessions counts each session once: when every tab that was
\* recorded took Data chunks and then one Stop, TotalSessions is the number
\* of those tabs, whatever the interleaving of the calls.
C6_OneCountPerSession ==
    (Quiet /\ \A t \in Tabs : hist[t].started => StoppedOnce(t)) =>
        TotalSessions = Cardinality({t \in Tabs : hist[t].started})

\* C7: the global byte total is the sum of the payload lengths of the Data
\* chunks whose ingest succeeded.
C7_TotalIsAcceptedBytes ==
    totalSize = SumOver(Tabs, [t \in Tabs |-> hist[t].okBytes])

\* C8: once the aggregator runs, no step lowers Stats.TotalSizeBytes.
C8_TotalBytesMonotonic ==
    [][Started => TotalSizeBytes' >= TotalSizeBytes]_vars

\* C8 witness: bytes were added on top of a loaded snapshot and saved.
C8_Witness ==
    /\ Started /\ ~dirty
    /\ snapshot.kind = "json" /\ snapshot.totalSizeBytes = TotalSizeBytes
    /\ TotalSizeBytes > 2 /\ loadErr = "nil"

\* C9: the file of a session that took Data and one Stop was opened once
\* and closed once, however the session's Data and Stop calls interleave.
C9_OpenedOnceClosedOnce ==
    \A t \in Tabs :
        (/\ ~InFlight(t) /\ hist[t].okBytes > 0
         /\ hist[t].stops = 1 /\ hist[t].stopDone) =>
            /\ Cardinality(HandlesOf(t)) = 1
            /\ SumOver(HandlesOf(t),
                       [i \in HandleIds |-> handles[i].closes]) = 1

\* C10: Load at startup: with no stats.json the totals are zero and no
\* error is reported; with a corrupt stats.json the caller that starts the
\* aggregator is handed the load error.
C10_LoadErrorSurfaced ==
    /\ (statsPc = "loaded" /\ snapshot.kind = "missing") =>
          (TotalSizeBytes = 0 /\ TotalSessions = 0 /\ loadErr = "nil")
    /\ (statsPc = "loaded" /\ snapshot.kind = "corrupt") => loadErr # "nil"
    /\ (Started /\ loadErr # "nil") => startErr # "nil"

\* C11: a message whose status is neither "stream" nor "stopped" is answered
\* with a client error (4xx), and its call changes no registry, file or
\* stats state.
C11_UnknownKindClientError ==
    [][\A p \in Procs :
          (calls[p].pc = "default" /\ calls'[p].pc # "default") =>
              /\ HttpStatus("unknown status") \in 400..499
              /\ UNCHANGED <<recorderVars, writerVars, statsVars>>]_vars

\* C14: once a Stop for a tab has returned and the ingest calls that ran
\* beside it have returned too, the monitoring queries no longer report the
\* tab: it is not in GetActiveRecordings, IsRecording is false and
\* GetSessionInfo is nil.
C14_StoppedNotReported ==
    \A t \in Tabs :
        (hist[t].stopDone /\ ~hist[t].late /\ ~InFlight(t)) =>
            /\ t \notin GetActiveRecordings
            /\ ~IsRecording(t)
            /\ GetSessionInfo(t) = <<>>

\* a Stop for tab t has got past its close: it has returned, or it has left
\* CloseFile and is about to
StopPastClose(t) ==
    \/ hist[t].stopDone
    \/ \E q \in Procs : /\ calls[q].status = "stopped" /\ calls[q].tabID = t
                         /\ calls[q].pc = "unmark"

\* C19: a Data ingest that runs beside a Stop ingest for the same tab is
\* appended before the close or rejected: it is never accepted once the Stop
\* is past its close, and it never counts a new session for a tab that has
\* accepted data and whose Stop has begun.
C19_RacingDataNotAcceptedAfterClose ==
    [][\A p \in Procs :
          (calls[p].status = "stream" /\ ~calls[p].afterStop) =>
              /\ (calls[p].pc = "write" /\ calls'[p].pc = "updInfo") =>
                     ~StopPastClose(calls[p].tabID)
              /\ (calls[p].pc = "incSession" /\ calls'[p].pc = "storeInfo") =>
                     ~(/\ hist[calls[p].tabID].okBytes > 0
                       /\ hist[calls[p].tabID].stops > 0)]_vars

\* C15: changing the root at runtime touches no session that has a handle
\* (no handle, file or registry entry changes, and a handle's file stays
\* the one it was created with), and a session's file is only ever created
\* under a root that has been ensured to exist.
C15_RootChangeOnlyForNewSessions ==
    [][/\ (downloadDir' # downloadDir \/ cfgCall' # cfgCall) =>
              UNCHANGED <<activeFiles, handles, disk>>
       /\ \A i \in HandleIds : handles'[i].name = handles[i].name
       /\ \A p \in Procs :
              (calls[p].pc = "createFile" /\ calls'[p].pc # "createFile") =>
                  downloadDir \in dirs]_vars

\* C12: recording several tabs at once is free of interference: a chunk of
\* a tab that records, and of which no stop was asked, is transported and
\* not ignored; and no step that handles another tab's start or stop
\* message, or ends another tab's recording, changes the in-flight count
\* while that tab has a chunk in flight.
C12_TabsDoNotInterfere ==
    [][/\ \A t \in Tabs :
              (/\ Recording(t) /\ ~seen[t].stopped /\ ~seen[t].cancelled
               /\ seen'[t].made = seen[t].made + 1) =>
                  seen'[t].posted = seen[t].posted + 1
       /\ \A a \in Tabs :
              (\/ /\ inbox # <<>> /\ Head(inbox).tabId = a
                  /\ inbox' = Tail(inbox)
               \/ onstop[a] = "stopping" /\ onstop'[a] = "none") =>
                  ((\E b \in Tabs \ {a} : Recording(b) /\ sending[b] > 0) =>
                      pendingChunks' = pendingChunks)]_vars

C16_DrainBeforeStop ==
    \A t \in Tabs : onstop[t] = "stopping" => sending[t] = 0

\* C17: the in-flight counter is the number of transport calls that have
\* counted themselves in and not settled; so it is never negative, and
\* never zero while a call is outstanding.
C17_CounterIsOutstandingCalls ==
    pendingChunks = SumOver(Tabs, sending)

\* C18: the drain ends: an onstop that waits for the in-flight chunks is
\* released, posts Stop and, Stop having settled, is over.
C18_DrainTerminates ==
    \A t \in Tabs : (onstop[t] = "draining") ~> (onstop[t] = "none")

\* C20: fail-fast: once a chunk transport call of a tab has failed, the
\* tab's recorder records no more, no chunk is posted twice, and when the
\* recording is over a recording-error has been sent for the tab.
C20_FailFastReportsError ==
    \A t \in Tabs :
        seen[t].failed > 0 =>
            /\ ~Recording(t)
            /\ seen[t].posted <= seen[t].made
            /\ t \notin bgRecordings =>
                   "recording-error" \in seen[t].notes

\* C21: teardown: when the Stop request of a tab settles, acknowledged or
\* failed, the tab's entries are removed from recordingMetadata and
\* activeRecorders (activeStreams is set and deleted along with them) and
\* stopRequested is reset; a failed Stop also reports a recording-error.
C21_TeardownAfterStop ==
    [][\A t \in Tabs :
          (onstop[t] = "stopping" /\ onstop'[t] = "none") =>
              /\ t \notin recordingMetadata'
              /\ t \notin DOMAIN activeRecorders'
              /\ ~stopRequested'
              /\ nfails' # nfails => "recording-error" \in seen'[t].notes]_vars

\* C22: a session never has more than one chunk transport call in flight.
C22_OneChunkInFlight ==
    \A t \in Tabs : sending[t] <= 1

\* C23: once the stop-recording handler has stopped a tab's recorder (the
\* recorder is inactive and no transport call of the tab has failed), a
\* chunk-ready event of that tab is ignored: the in-flight counter is not
\* incremented and no Data request is posted.
C23_ChunksAfterStopIgnored ==
    [][\A t \in Tabs :
          (/\ t \in DOMAIN activeRecorders
           /\ activeRecorders[t] = "inactive" /\ seen[t].failed = 0
           /\ seen'[t].made = seen[t].made + 1) =>
              /\ seen'[t].posted = seen[t].posted
              /\ pendingChunks' = pendingChunks
              /\ sending' = sending]_vars

\* C24: a Data ingest whose write or flush fails returns the error and
\* leaves the session as it was: the handle stays in the registry and open,
\* the tab stays active and is not marked stopped; and a later chunk of the
\* tab that reaches the same handle, the handle still registered and open
\* and the disk not failing this time, is accepted and written.
C24_WriteFailureLeavesSession ==
    [][\A p \in Procs :
          (calls[p].pc = "write" /\ calls'[p].pc # "write") =>
              LET c == calls[p] IN
              /\ calls'[p].pc = "idle" =>
                    /\ UNCHANGED <<activeFiles, activeRecordings,
                                   stoppedRecordings>>
                    /\ handles'[c.handle].closed = handles[c.handle].closed
              /\ (/\ c.tabID \in DOMAIN activeFiles
                  /\ activeFiles[c.tabID] = c.handle
                  /\ ~handles[c.handle].closed
                  /\ nfaults' = nfaults) =>
                    /\ calls'[p].pc = "updInfo"
                    /\ hist'[c.tabID].accepted =
                           Append(hist[c.tabID].accepted, c.data)]_vars

\* C25: a Data ingest that returns an error (already stopped, no handle,
\* write failed, flush failed) changes neither a session's BytesWritten
\* nor the total of bytes written in the step it returns from.
C25_CountersOnlyOnSuccess ==
    [][\A p \in Procs :
          (\/ /\ calls[p].status = "stream"
              /\ calls[p].pc \notin {"idle", "updInfo"}
              /\ calls'[p].pc = "idle"
           \/ /\ Serves(p) /\ ncalls' = ncalls + 1
              /\ calls'[p].pc = "idle") =>
              /\ totalSize' = totalSize
              /\ sessionInfo' = sessionInfo]_vars

\* C26: a file close that fails while Stop is processed is only logged:
\* the Stop call does not return from CloseFile with an error but goes on
\* to its successful return, with the tab out of the active set and its
\* handle out of the registry.
C26_CloseFailureOnlyLogged ==
    [][\A p \in Procs :
          (calls[p].pc = "close" /\ calls'[p].pc # "close") =>
              calls'[p].pc = "unmark"]_vars

\* C30: save is a no-op when nothing changed: a step taken with dirty
\* clear that changes neither total (so any save, and any number of saves
\* in a row) leaves stats.json, dirty and lastSave as they are; and a step
\* that writes stats.json or sets lastSave writes the present totals and
\* clears dirty, so that the save after it is such a no-op.
C30_SaveIdempotent ==
    [][/\ (~dirty /\ UNCHANGED <<TotalSizeBytes, TotalSessions>>) =>
              UNCHANGED <<snapshot, dirty, lastSave>>
       /\ (snapshot' # snapshot \/ lastSave' # lastSave) =>
              /\ ~dirty' /\ lastSave' # lastSave
              /\ snapshot' = StatsFile("json", TotalSizeBytes,
                                       TotalSessions)]_vars

\* C30 witness: totals that were changed have been saved, and nothing has
\* changed since: the state in which a further save has nothing to write.
C30_Witness ==
    /\ Started /\ ~dirty /\ lastSave >= 1
    /\ TotalSizeBytes > 0 /\ TotalSessions > 0
    /\ snapshot = StatsFile("json", TotalSizeBytes, TotalSessions)

\* the call that holds the lock call p is waiting for, if p waits for one
WaitsFor(p) ==
    IF calls[p].pc \in {"write", "close"} THEN mu[calls[p].handle]
    ELSE IF calls[p].pc = "lockTotal" THEN totalSizeMu
    ELSE NoProc

\* call p is inside the locked section of WriteChunk
InSection(p) == calls[p].pc \in {"bufWrite", "lockTotal", "addTotal", "flush"}

C28_SameSessionSerialized ==
    \A p, q \in Procs :
        (p # q /\ InSection(p)) =>
            /\ calls[q].tabID = calls[p].tabID => ~InSection(q)
            /\ calls[q].handle = calls[p].handle => calls[q].pc # "closing"

\* C29: while a session is active and no call for it is running, its
\* BytesWritten is the sum of the lengths of the chunks accepted for it.
C29_BytesWrittenIsSum ==
    \A t \in Tabs :
        (/\ t \in activeRecordings /\ t \in DOMAIN sessionInfo
         /\ hist[t].stops = 0 /\ ~InFlight(t)) =>
            sessionInfo[t] = hist[t].okBytes

Persisted ==
    IF snapshot.kind = "json"
    THEN <<snapshot.totalSizeBytes, snapshot.totalSessions>>
    ELSE <<0, 0>>

\* C33: once NewStats has loaded, totals that differ from the last snapshot
\* written or loaded are marked dirty; and while the periodic-save task has
\* not returned, dirty totals come to be saved.
C33_DirtyCoversChanges ==
    /\ [](statsPc # "new" /\ <<TotalSizeBytes, TotalSessions>> # Persisted
            => dirty)
    /\ dirty ~> (~dirty \/ statsPc = "stopped")

\* C33 witness: after a save the totals were changed again, and the timer
\* is running
C33_Witness ==
    /\ statsPc = "running" /\ lastSave > 0 /\ dirty
    /\ <<TotalSizeBytes, TotalSessions>> # Persisted

\* C34: a save whose write fails leaves dirty set and lastSave, the totals
\* and stats.json as they were.
C34_FailedSaveKeepsDirty ==
    [][nfaults' > nfaults
        => /\ dirty /\ dirty'
           /\ lastSave' = lastSave
           /\ TotalSizeBytes' = TotalSizeBytes
           /\ TotalSessions' = TotalSessions
           /\ snapshot' = snapshot]_vars

\* C34 witness: after a failed save, a later save has written the totals
C34_Witness ==
    /\ nfaults > 0 /\ lastSave > 0 /\ ~dirty
    /\ TotalSessions > 0
    /\ snapshot = StatsFile("json", TotalSizeBytes, TotalSessions)

\* a body the handler must refuse: one that is no RecordingData, or a chunk
\* whose data holds a character outside the base64 alphabet
Refusable(r) ==
    \/ r.kind # "object"
    \/ r.status = "stream" /\ \E i \in 1..Len(r.data) : r.data[i] = BadChar

\* C32: a request with a malformed envelope, or a chunk whose data is not
\* valid base64, is answered with a client error (4xx) by the handler
\* itself: HandleRecording is not called, and no session, file or stats
\* state changes.
C32_RejectedBeforeRegistry ==
    [][(request.pc = "received" /\ Refusable(request) /\ request' # request)
        => /\ request'.pc = "answered"
           /\ request'.code \in 400..499
           /\ UNCHANGED <<recorderVars, writerVars, statsVars, calls, ncalls,
                          hist>>]_vars

\* C32 witness: while a session is recorded, a chunk with data that is no
\* base64 has been answered with 400
C32_Witness ==
    /\ request.pc = "answered" /\ request.code = 400
    /\ request.kind = "object" /\ request.status = "stream"
    /\ request.tabId \in activeRecordings

\* C35: whenever no HandleRecording call is in progress, the ids in
\* activeRecordings are those with a sessionInfo entry, and every id with a
\* handle in activeFiles is in activeRecordings.
C35_RegistryConsistent ==
    Quiet => /\ activeRecordings = DOMAIN sessionInfo
             /\ DOMAIN activeFiles \subseteq activeRecordings

C37_ModeFixedAtStart ==
    \A t \in bgRecordings :
        IF seen[t].useBackend
        THEN recordedChunksMap[t] = 0
        ELSE seen[t].posted = 0 /\ onstop[t] = "none"

\* C38: a start-recording message is forwarded to the offscreen document
\* for a tab only when the tab is not in activeRecordings, so at most one
\* is forwarded while the tab is there.
C38_OneStartPerTab ==
    [][\A t \in Tabs :
          (/\ Len(inbox') = Len(inbox) + 1
           /\ inbox'[Len(inbox')].type = "start-recording"
           /\ inbox'[Len(inbox')].tabId = t)
          => t \notin bgRecordings]_vars

====
